---- MODULE Spec2Model ----
(***************************************************************************)
(* State-machine model of the Jodi's List frontend: the API gateway        *)
(* (src/lib/api.ts), the session store (hooks/use-auth.tsx) and the review *)
(* list controller, review card and review form (components/reviews).      *)
(*                                                                         *)
(* The specifications share the variables:                                 *)
(*   SpecAuth  the gateway interceptors and the session store;             *)
(*   SpecGuard the session store with a page wrapped by withAuth;          *)
(*   Spec      the review list controller with its cards and its form,     *)
(*             for a signed-in user;                                       *)
(*   SpecVisitor  the review list and its cards for a visitor;             *)
(*   SpecPaged the review list against a service that pages consistently;  *)
(*   SpecCaps  the controls of a loaded list, for any can_edit/can_delete; *)
(*   SpecIdentity  the loaded list while users log out and in;             *)
(*   SpecForm  the open review form, field by field;                       *)
(*   SpecStars the star renderers of the card, the list and the page.      *)
(* Each asynchronous handler is split where the code awaits: one action    *)
(* dispatches the request, one action per request handles its response.    *)
(* `effects` is a history variable: the observable effects (storage        *)
(* writes, navigations, notifications, requests) of the last step, in      *)
(* program order.                                                          *)
(***************************************************************************)
EXTENDS Integers, Sequences, FiniteSets, TLC

VARIABLES
    \* ---- browser storage and location (api.ts, use-auth.tsx)
    auth_token,     \* localStorage['auth_token']
    userSnap,       \* localStorage['user']
    location,       \* window.location.href
    \* ---- AuthProvider state (use-auth.tsx)
    user,           \* useState<User | null>
    authLoading,    \* useState(true)
    authPc,         \* position of the mount effect: "start" | "checking" | "settled"
    \* ---- network
    net,            \* requests in flight through apiClient
    nextReq,        \* number of requests dispatched so far
    since401,       \* history: a 401 was received and no login/registration succeeded since
    \* ---- ReviewList state (review-list.tsx)
    reviews, statistics, loading, showReviewForm, editingReview,
    filters, currentPage, hasMore,
    mounted,        \* the ReviewList is rendered (no render has thrown)
    \* ---- ReviewCard state, one card per mounted review id (review-card.tsx)
    hasVotedHelpful,
    \* ---- ReviewForm state (review-form.tsx)
    formErrors, formLoading,
    formData,       \* useState<ReviewFormData>; followed in SpecForm only
    \* ---- star rendering (renderStars of the card, the list and the page)
    starRating,     \* the rating handed to a star renderer
    stars,          \* what the renderer returned for it
    \* ---- withAuth (use-auth.tsx)
    guard,          \* the last render of a component wrapped by withAuth
    \* ---- the remote service's reviews of this business (environment)
    srv,
    \* ---- history
    confirmed,      \* review ids whose delete the user confirmed
    helpfulCalls,   \* review ids for which a mark-helpful call was already made this session
    received,       \* response.data.data of the list response handled in the last step
    effects         \* effects of the last step, in program order

authVars == <<auth_token, userSnap, location, user, authLoading, authPc, since401>>
listVars == <<reviews, statistics, loading, showReviewForm, editingReview,
              filters, currentPage, hasMore, hasVotedHelpful, formErrors,
              formLoading, srv, confirmed, helpfulCalls, mounted, received,
              formData, starRating, stars, guard>>
viewVars == <<formData, starRating, stars, guard>>
vars == <<authVars, listVars, net, nextReq, effects>>

----------------------------------------------------------------------------
(* Bounds *)
MaxRequests == 3

(* Values *)
NoToken == "null"
Tokens == {"t1", "t2"}
NoUser == [id |-> 0, role |-> "null"]
Users == {[id |-> 1, role |-> "customer"], [id |-> 2, role |-> "business_owner"]}
Roles == {"customer", "business_owner"}
NoHeader == "absent"

\* JSON.stringify(user): the snapshot is a string, not the record itself
Stringify(u) == [json |-> u]
NoSnap == [json |-> [id |-> -1, role |-> "removed"]]

\* JavaScript truthiness of a stored string: null and "" are falsy
Truthy(t) == t # NoToken /\ t # ""

Bearer(t) == "Bearer " \o t

----------------------------------------------------------------------------
(* API gateway: src/lib/api.ts *)

\* request interceptor, lines 17-28: the Authorization header put on a request
RequestInterceptor_NoHeader(token) == NoHeader
RequestInterceptor(token) ==
    IF Truthy(token) THEN Bearer(token) ELSE NoHeader

\* response interceptor, error branch, lines 35-45: the storage and location
\* after the interceptor ran, and the effects it had, for a response `status`
ResponseInterceptor_KeepToken(status, st) ==
    IF status = "401"
    THEN [st EXCEPT !.snap = NoSnap, !.loc = "/login",
                    !.fx = @ \o << <<"removeItem", "user">>,
                                   <<"navigate", "/login">> >>]
    ELSE st
ResponseInterceptor(status, st) ==
    IF status = "401"
    THEN [st EXCEPT !.token = NoToken, !.snap = NoSnap, !.loc = "/login",
                    !.fx = @ \o << <<"removeItem", "auth_token">>,
                                   <<"removeItem", "user">>,
                                   <<"navigate", "/login">> >>]
    ELSE st

\* lines 629-633
setAuthToken_Drop(token) == NoToken
setAuthToken(token) == token
\* lines 635-640: removes both keys
removeAuthToken_Keep == [token |-> auth_token, snap |-> NoSnap]
removeAuthToken == [token |-> NoToken, snap |-> NoSnap]
\* lines 642-647
getAuthToken == auth_token

Statuses == {"200", "401", "500", "none"}   \* "none": no response (network error)
Rejected(status) == status # "200"

\* The storage and location as the response interceptor finds them
Store == [token |-> auth_token, snap |-> userSnap, loc |-> location,
          fx |-> <<>>]

\* apiClient.<verb>(...): the request leaves with the header the request
\* interceptor computes from the storage at this moment
Request(op) == [id |-> nextReq + 1, op |-> op,
                authorization |-> RequestInterceptor(auth_token)]
Dispatched(r) == <<"request", r.op, r.authorization>>

Send(op) ==
    /\ nextReq < MaxRequests
    /\ net' = net \cup {Request(op)}
    /\ nextReq' = nextReq + 1

\* A response arrives for r: the interceptor runs first, then the caller's
\* continuation sees the rejection (or the response)
Receive(r, status) ==
    /\ r \in net
    /\ net' = net \ {r}
    /\ nextReq' = nextReq

Received(r, status) == <<"response", r.op, status>>
ToCaller(r, status) ==
    IF Rejected(status) THEN <<"reject", r.op>> ELSE <<"resolve", r.op>>

----------------------------------------------------------------------------
(* Session store: AuthProvider, src/hooks/use-auth.tsx (src/unnamed/part_001) *)

\* { ...user, ...userData }
Merge(u, p) ==
    [k \in DOMAIN u |-> IF k \in DOMAIN p THEN p[k] ELSE u[k]]
Partials == {[role |-> ro] : ro \in Roles}

listUnchanged == UNCHANGED listVars

\* lines 43-59, up to the await: the mount effect
checkAuth ==
    /\ authPc = "start"
    /\ IF Truthy(getAuthToken)
       THEN /\ Send("me")
            /\ authPc' = "checking"
            /\ authLoading' = authLoading
            /\ effects' = <<Dispatched(Request("me"))>>
       ELSE /\ authLoading' = FALSE
            /\ authPc' = "settled"
            /\ effects' = <<>>
            /\ UNCHANGED <<net, nextReq>>
    /\ UNCHANGED <<auth_token, userSnap, location, user, since401>>
    /\ listUnchanged

\* lines 48-55: the probe's response
checkAuthResolve(r, status, u) ==
    LET st == ResponseInterceptor(status,
                  [Store EXCEPT !.fx = <<Received(r, status)>>])
    IN  /\ r.op = "me"
        /\ Receive(r, status)
        /\ location' = st.loc
        /\ IF Rejected(status)
           THEN /\ auth_token' = removeAuthToken.token
                /\ userSnap' = removeAuthToken.snap
                /\ user' = user
                /\ effects' = st.fx \o << ToCaller(r, status),
                                         <<"removeItem", "auth_token">>,
                                         <<"removeItem", "user">> >>
           ELSE /\ auth_token' = st.token
                /\ userSnap' = st.snap
                /\ user' = u
                /\ effects' = st.fx \o << ToCaller(r, status) >>
        /\ authLoading' = FALSE
        /\ authPc' = "settled"
        /\ since401' = (since401 \/ status = "401")
        /\ listUnchanged

\* lines 61-63 and 82-85, up to the await
login ==
    /\ authPc # "start"
    /\ Send("login")
    /\ effects' = <<Dispatched(Request("login"))>>
    /\ UNCHANGED authVars
    /\ listUnchanged

register ==
    /\ authPc # "start"
    /\ Send("register")
    /\ effects' = <<Dispatched(Request("register"))>>
    /\ UNCHANGED authVars
    /\ listUnchanged

\* what login (lines 64-74) and register (lines 87-102) do with a 2xx response
SignedIn(r, st, u, t) ==
    /\ auth_token' = setAuthToken(t)
    /\ user' = u
    /\ userSnap' = Stringify(u)
    /\ since401' = FALSE
    /\ effects' = st.fx \o << ToCaller(r, "200"),
                             <<"setItem", "auth_token">>,
                             <<"setItem", "user">>,
                             <<"toast.success", "Welcome">> >>

\* lines 63-79
loginResolve(r, status, u, t) ==
    LET st == ResponseInterceptor(status,
                  [Store EXCEPT !.fx = <<Received(r, status)>>])
    IN  /\ r.op = "login"
        /\ Receive(r, status)
        /\ location' = st.loc
        /\ IF Rejected(status)
           THEN /\ auth_token' = st.token
                /\ userSnap' = st.snap
                /\ user' = user
                /\ since401' = (since401 \/ status = "401")
                /\ effects' = st.fx \o << ToCaller(r, status),
                                         <<"toast.error", "Login failed">> >>
           ELSE SignedIn(r, st, u, t)
        /\ UNCHANGED <<authLoading, authPc>>
        /\ listUnchanged

\* lines 85-115: the catch block announces success (line 113)
registerResolve(r, status, u, t) ==
    LET st == ResponseInterceptor(status,
                  [Store EXCEPT !.fx = <<Received(r, status)>>])
    IN  /\ r.op = "register"
        /\ Receive(r, status)
        /\ location' = st.loc
        /\ IF Rejected(status)
           THEN /\ auth_token' = st.token
                /\ userSnap' = st.snap
                /\ user' = user
                /\ since401' = (since401 \/ status = "401")
                /\ effects' = st.fx \o << ToCaller(r, status),
                                         <<"toast.success", "Registration Successful">> >>
           ELSE SignedIn(r, st, u, t)
        /\ UNCHANGED <<authLoading, authPc>>
        /\ listUnchanged

\* lines 118-120, up to the await
logout ==
    /\ authPc # "start"
    /\ Send("logout")
    /\ effects' = <<Dispatched(Request("logout"))>>
    /\ UNCHANGED authVars
    /\ listUnchanged

\* lines 120-132: the finally block runs whatever the response
logoutResolve(r, status) ==
    LET st == ResponseInterceptor(status,
                  [Store EXCEPT !.fx = <<Received(r, status)>>])
    IN  /\ r.op = "logout"
        /\ Receive(r, status)
        /\ location' = st.loc
        /\ auth_token' = removeAuthToken.token
        /\ userSnap' = NoSnap
        /\ user' = NoUser
        /\ since401' = (since401 \/ status = "401")
        /\ effects' = st.fx \o << ToCaller(r, status),
                                 <<"removeItem", "auth_token">>,
                                 <<"removeItem", "user">>,
                                 <<"toast.success", "Logged out successfully">> >>
        /\ UNCHANGED <<authLoading, authPc>>
        /\ listUnchanged

\* lines 135-144
updateUser_Unguarded(p) ==
    /\ authPc # "start"
    /\ user' = Merge(user, p)
    /\ userSnap' = Stringify(Merge(user, p))
    /\ effects' = << <<"setItem", "user">> >>
    /\ UNCHANGED <<auth_token, location, authLoading, authPc, since401,
                   net, nextReq>>
    /\ listUnchanged
updateUser(p) ==
    /\ authPc # "start"
    /\ IF user # NoUser
       THEN /\ user' = Merge(user, p)
            /\ userSnap' = Stringify(Merge(user, p))
            /\ effects' = << <<"setItem", "user">> >>
       ELSE /\ UNCHANGED <<user, userSnap>>
            /\ effects' = <<>>
    /\ UNCHANGED <<auth_token, location, authLoading, authPc, since401,
                   net, nextReq>>
    /\ listUnchanged

\* any other operation of `api` (api.ts lines 226-627): a thin wrapper over
\* apiClient whose caller leaves the session alone
apiCall ==
    /\ authPc # "start"
    /\ Send("api")
    /\ effects' = <<Dispatched(Request("api"))>>
    /\ UNCHANGED authVars
    /\ listUnchanged

apiCallResolve(r, status) ==
    LET st == ResponseInterceptor(status,
                  [Store EXCEPT !.fx = <<Received(r, status)>>])
    IN  /\ r.op = "api"
        /\ Receive(r, status)
        /\ location' = st.loc
        /\ auth_token' = st.token
        /\ userSnap' = st.snap
        /\ since401' = (since401 \/ status = "401")
        /\ effects' = st.fx \o << ToCaller(r, status) >>
        /\ UNCHANGED <<user, authLoading, authPc>>
        /\ listUnchanged

----------------------------------------------------------------------------
(* Review list: values and initial state, review-list.tsx lines 27-83 *)

MaxCalls == 4        \* requests the review list of a signed-in user may dispatch
MaxVisitorCalls == 5 \* requests the review list of a visitor may dispatch
MaxReviewId == 3     \* review identifiers the service hands out
MaxBatch == 2        \* reviews in one page of a response
MaxPages == 2        \* total_pages the service reports

ReviewIds == 1..MaxReviewId

\* interface Review, lines 27-53: the fields the controller and the card read
NoReview == [id |-> 0, user |-> 0, helpful_count |-> 0, rev |-> 0,
             can_edit |-> FALSE, can_delete |-> FALSE]
\* interface ReviewStatistics, lines 55-62
NoStatistics == [total_reviews |-> -1]
NoMeta == [current_page |-> 0, total_pages |-> 0]
NoBody == [reviews |-> <<>>, statistics |-> NoStatistics, meta |-> NoMeta]
\* useState<ApiFilters>, lines 77-81
InitFilters == [rating |-> "", verified |-> FALSE, sortBy |-> "newest"]
\* the values the user picks in the filter controls, lines 387-422: two
\* options of the rating select and two of the sort select
FilterChoices ==
    {<<"rating", "">>, <<"rating", "5">>,
     <<"sortBy", "newest">>, <<"sortBy", "oldest">>}

\* useState<Record<string, string>>({}), review-form.tsx line 133; '' and a
\* missing key are both falsy wherever errors is read
NoErrors == [rating |-> "", review_title |-> "", review_text |-> ""]

Ids(seq) == {seq[i].id : i \in 1..Len(seq)}

\* Ratings are counted in tenths of a star, so that 4.5 is the value 45
Scale == 10
MaxStars == 5
\* a string the user typed, by its length and its length once trimmed
Str(n, m) == [len |-> n, trimmed |-> m]
\* the fields of a review the form is filled from; NoContent: no review
NoContent == [rating |-> 0, review_title |-> Str(0, 0), review_text |-> Str(0, 0)]
\* useState<ReviewFormData>, review-form.tsx lines 135-146: a || b
FormInit(existingReview) ==
    [rating |-> IF existingReview.rating # 0 THEN existingReview.rating ELSE 0,
     review_title |-> IF existingReview.review_title.len # 0
                      THEN existingReview.review_title ELSE Str(0, 0),
     review_text |-> IF existingReview.review_text.len # 0
                     THEN existingReview.review_text ELSE Str(0, 0)]
\* nothing rendered yet
NoStars == [by |-> "none", glyphs |-> <<>>]
\* withAuth's options (use-auth.tsx lines 166-169 and 178): requiredRole is
\* absent or an array of roles; redirectTo defaults to /login
NoRequiredRole == [configured |-> FALSE, roles |-> {}]
NoGuard == [options |-> [requiredRole |-> NoRequiredRole, redirectTo |-> "/login"],
            rendered |-> "none", pushed |-> "none"]

\* The service's reviews when the page loads: review 1 by user 1, review 2
\* by an author who is not the one browsing (user 3); user 2 wrote none
InitSrv ==
    [i \in ReviewIds |->
        IF i = 1
        THEN [state |-> "live", user |-> 1, helpful_count |-> 0, rev |-> 0]
        ELSE IF i = 2
        THEN [state |-> "live", user |-> 3, helpful_count |-> 0, rev |-> 0]
        ELSE [state |-> "none", user |-> 0, helpful_count |-> 0, rev |-> 0]]

InitList ==
    /\ reviews = <<>>
    /\ statistics = NoStatistics
    /\ loading = TRUE
    /\ showReviewForm = FALSE
    /\ editingReview = NoReview
    /\ filters = InitFilters
    /\ currentPage = 1
    /\ hasMore = TRUE
    /\ hasVotedHelpful = {}
    /\ formErrors = NoErrors
    /\ formLoading = FALSE
    /\ srv = InitSrv
    /\ confirmed = {}
    /\ helpfulCalls = {}
    /\ mounted = TRUE
    /\ received = NoBody

\* no form content typed, nothing handed to a star renderer
InitViews ==
    /\ formData = FormInit(NoContent)
    /\ starRating = 0
    /\ stars = NoStars
    /\ guard = NoGuard

----------------------------------------------------------------------------
(* The session store and the gateway on their own *)

\* the storage a page load finds: empty, or what an earlier login left
InitAuth ==
    /\ \/ auth_token = NoToken /\ userSnap = NoSnap
       \/ \E t \in Tokens, u \in Users :
              auth_token = t /\ userSnap = Stringify(u)
    /\ location = "/"
    /\ user = NoUser
    /\ authLoading = TRUE
    /\ authPc = "start"
    /\ since401 = FALSE
    /\ net = {}
    /\ nextReq = 0
    /\ effects = <<>>
    /\ InitList
    /\ InitViews

NextAuth ==
    \/ checkAuth
    \/ \E r \in net, s \in Statuses, u \in Users : checkAuthResolve(r, s, u)
    \/ login
    \/ \E r \in net, s \in Statuses, u \in Users, t \in Tokens :
           loginResolve(r, s, u, t)
    \/ register
    \/ \E r \in net, s \in Statuses, u \in Users, t \in Tokens :
           registerResolve(r, s, u, t)
    \/ logout
    \/ \E r \in net, s \in Statuses : logoutResolve(r, s)
    \/ \E p \in Partials : updateUser(p)
    \/ apiCall
    \/ \E r \in net, s \in Statuses : apiCallResolve(r, s)

SpecAuth == InitAuth /\ [][NextAuth]_vars

----------------------------------------------------------------------------
(* The remote service (environment): what the endpoints wrapped by
   api.reviews, api.ts lines 409-439, answer. The service is not part of
   the repository; the model lets it answer anything the response types
   allow. *)

\* how a call ends: 2xx with success=true; 2xx with success=false and no
\* data; a non-2xx response (axios throws, error.response is set); no
\* response at all (axios throws, error.response is undefined)
Outcomes == {"ok", "soft", "http", "network"}
Threw(outcome) == outcome \in {"http", "network"}

ServerMessage == "message of the service"

PerPage == 10

Live == {i \in ReviewIds : srv[i].state = "live"}

\* a review as the service renders it for the requesting identity
ServerView(s, i) ==
    [id |-> i, user |-> s[i].user, helpful_count |-> s[i].helpful_count,
     rev |-> s[i].rev,
     can_edit |-> user # NoUser /\ s[i].user = user.id,
     can_delete |-> user # NoUser /\ s[i].user = user.id]

RECURSIVE Ascending(_)
Ascending(S) ==
    IF S = {} THEN <<>>
    ELSE LET m == CHOOSE x \in S : \A y \in S : x <= y
         IN  <<m>> \o Ascending(S \ {m})
Reverse(seq) == [i \in 1..Len(seq) |-> seq[Len(seq) + 1 - i]]
\* sort_by: "oldest" lists increasing identifiers, anything else decreasing
Ordered(S, sortBy) ==
    IF sortBy = "oldest" THEN Ascending(S) ELSE Reverse(Ascending(S))

\* the pages the service may answer a list request with: at most MaxBatch
\* reviews that existed while the request was in flight, in sort order
Pages(r) ==
    {[i \in 1..Cardinality(S) |-> ServerView(srv, Ordered(S, r.params.sort_by)[i])] :
        S \in {T \in SUBSET r.seen : Cardinality(T) <= MaxBatch}}
Metas(page) ==
    {NoMeta} \cup {[current_page |-> page, total_pages |-> n] : n \in 1..MaxPages}
ServerStatistics == [total_reviews |-> Cardinality(Live)]
ListBodies(r) ==
    {[reviews |-> b, statistics |-> ServerStatistics, meta |-> m] :
        b \in Pages(r), m \in Metas(r.page)}

\* the identifier the service gives the next created review, 0 if none is left
NewId ==
    IF \E i \in ReviewIds : srv[i].state = "none"
    THEN CHOOSE i \in ReviewIds :
             srv[i].state = "none" /\ \A j \in 1..(i - 1) : srv[j].state # "none"
    ELSE 0
\* one review per author and business
MayCreate ==
    /\ user # NoUser
    /\ NewId # 0
    /\ \A i \in Live : srv[i].user # user.id

----------------------------------------------------------------------------
(* Review list controller: ReviewList, review-list.tsx *)

\* parseInt of the values of the rating select, lines 392-397
ParseInt(str) ==
    CASE str = "1" -> 1 [] str = "2" -> 2 [] str = "3" -> 3
      [] str = "4" -> 4 [] str = "5" -> 5
NoParam == -1
\* lines 92-112: the query of a list request
Params(page, filt) ==
    [page |-> page, per_page |-> PerPage, sort_by |-> filt.sortBy,
     rating |-> IF filt.rating # "" THEN ParseInt(filt.rating) ELSE NoParam,
     verified |-> filt.verified]

\* A request in flight: what was sent, and what the continuation of the
\* async function that sent it still holds in its closure (page, filt).
\* seen: the reviews that existed at some moment since the request left.
\* orphan: the form that sent it has been unmounted.
MkReq(id, op, page, filt, target, origin, seen, token) ==
    [id |-> id, op |-> op, page |-> page, filt |-> filt,
     params |-> Params(page, filt), target |-> target, origin |-> origin,
     seen |-> seen, orphan |-> FALSE,
     authorization |-> RequestInterceptor(token)]
ListReq(id, page, filt, origin) ==
    MkReq(id, "list", page, filt, 0, origin, Live, auth_token)
CallReq(op, target) ==
    MkReq(nextReq + 1, op, currentPage, filters, target, "user", {}, auth_token)

CanSend(n) ==
    nextReq + n <= IF user = NoUser THEN MaxVisitorCalls ELSE MaxCalls
Resp(r, outcome) == <<"response", r.op, outcome>>

\* the cards that stay mounted keep their state; a review that leaves the
\* list loses its card (key={review.id}, lines 439-446)
Mounted(voted, newReviews) == voted \cap Ids(newReviews)

\* the skeleton (lines 259-277) replaces the whole list while the first
\* page loads; the form's overlay (review-form.tsx, fixed inset-0) covers it
ListVisible == mounted /\ ~(loading /\ currentPage = 1) /\ ~showReviewForm

\* lines 119-123
ApplyFetch_AlwaysAppend(page, prev, newReviews) == prev \o newReviews
ApplyFetch(page, prev, newReviews) ==
    IF page = 1 THEN newReviews ELSE prev \o newReviews
\* line 126
HasMoreOf(meta) ==
    IF meta # NoMeta THEN meta.current_page < meta.total_pages ELSE FALSE

\* fetchReviews, lines 114-132: the continuation after the await
fetchResolve(r, outcome) ==
    /\ mounted /\ r \in net /\ r.op = "list"
    /\ \/ /\ outcome = "ok"
          /\ \E body \in ListBodies(r) :
                /\ received' = body
                /\ reviews' = ApplyFetch(r.page, reviews, body.reviews)
                /\ statistics' = body.statistics
                /\ hasMore' = HasMoreOf(body.meta)
          /\ effects' = <<Resp(r, outcome)>>
       \/ /\ outcome # "ok"     \* thrown, or data undefined at line 117
          /\ received' = NoBody
          /\ UNCHANGED <<reviews, statistics, hasMore>>
          /\ effects' = <<Resp(r, outcome),
                          <<"toast.error", "Failed to load reviews">> >>
    /\ loading' = FALSE
    /\ hasVotedHelpful' = Mounted(hasVotedHelpful, reviews')
    /\ net' = net \ {r}
    /\ UNCHANGED <<nextReq, showReviewForm, editingReview, filters,
                   currentPage, formErrors, formLoading, srv, confirmed,
                   helpfulCalls>>
    /\ UNCHANGED authVars
    /\ UNCHANGED viewVars
    /\ UNCHANGED mounted

\* line 193
FilterChangePage_Keep(page) == page
FilterChangePage(page) == 1

\* handleFilterChange, lines 191-194, and the effect it triggers, lines 85-87
handleFilterChange(key, value) ==
    /\ ListVisible
    /\ filters[key] # value             \* onChange
    /\ CanSend(1)
    /\ filters' = [filters EXCEPT ![key] = value]
    /\ currentPage' = FilterChangePage(currentPage)
    /\ net' = net \cup {ListReq(nextReq + 1, currentPage', filters', "filter")}
    /\ nextReq' = nextReq + 1
    /\ effects' = << <<"request", "list", RequestInterceptor(auth_token)>> >>
    /\ UNCHANGED <<reviews, statistics, loading, showReviewForm,
                   editingReview, hasMore, hasVotedHelpful, formErrors,
                   formLoading, srv, confirmed, helpfulCalls>>
    /\ UNCHANGED authVars
    /\ UNCHANGED viewVars
    /\ received' = NoBody
    /\ UNCHANGED mounted

\* loadMoreReviews, lines 196-198, behind the button of lines 452-457, and
\* the effect it triggers
loadMoreReviews ==
    /\ ListVisible
    /\ reviews # <<>> /\ hasMore /\ ~loading
    /\ CanSend(1)
    /\ currentPage' = currentPage + 1
    /\ net' = net \cup {ListReq(nextReq + 1, currentPage', filters, "more")}
    /\ nextReq' = nextReq + 1
    /\ effects' = << <<"request", "list", RequestInterceptor(auth_token)>> >>
    /\ UNCHANGED <<reviews, statistics, loading, showReviewForm,
                   editingReview, filters, hasMore, hasVotedHelpful,
                   formErrors, formLoading, srv, confirmed, helpfulCalls>>
    /\ UNCHANGED authVars
    /\ UNCHANGED viewVars
    /\ received' = NoBody
    /\ UNCHANGED mounted

----------------------------------------------------------------------------
(* Review form: ReviewForm, review-form.tsx (src/components/reviews/
   review-modal.tsx from line 85) *)

MaxTitle == 100
MinText == 10
MaxText == 1000

\* what the form may hold when Submit is pressed
TypedForms ==
    {[rating |-> 5 * Scale, review_title |-> Str(12, 12), review_text |-> Str(40, 40)],
     [rating |-> 0, review_title |-> Str(3, 0), review_text |-> Str(9, 9)]}

\* validateForm, lines 148-171: the errors it sets
validateForm_TextOver(fd) ==
    [rating |-> IF fd.rating = 0 THEN "Please select a rating" ELSE "",
     review_title |->
        IF fd.review_title.trimmed = 0 THEN "Review title is required"
        ELSE IF fd.review_title.len > MaxTitle
             THEN "Title must be 100 characters or less" ELSE "",
     review_text |->
        IF fd.review_text.trimmed = 0 THEN "Review text is required"
        ELSE IF fd.review_text.len <= MinText
             THEN "Review must be at least 10 characters"
        ELSE IF fd.review_text.len >= MaxText
             THEN "Review must be 1000 characters or less" ELSE ""]
validateForm_FirstOnly(fd) ==
    IF fd.rating = 0
    THEN [rating |-> "Please select a rating", review_title |-> "",
          review_text |-> ""]
    ELSE IF fd.review_title.trimmed = 0
    THEN [rating |-> "", review_title |-> "Review title is required",
          review_text |-> ""]
    ELSE IF fd.review_title.len > MaxTitle
    THEN [rating |-> "", review_title |-> "Title must be 100 characters or less",
          review_text |-> ""]
    ELSE [rating |-> "", review_title |-> "",
          review_text |->
             IF fd.review_text.trimmed = 0 THEN "Review text is required"
             ELSE IF fd.review_text.len < MinText
                  THEN "Review must be at least 10 characters"
             ELSE IF fd.review_text.len > MaxText
                  THEN "Review must be 1000 characters or less" ELSE ""]
validateForm(fd) ==
    [rating |-> IF fd.rating = 0 THEN "Please select a rating" ELSE "",
     review_title |->
        IF fd.review_title.trimmed = 0 THEN "Review title is required"
        ELSE IF fd.review_title.len > MaxTitle
             THEN "Title must be 100 characters or less" ELSE "",
     review_text |->
        IF fd.review_text.trimmed = 0 THEN "Review text is required"
        ELSE IF fd.review_text.len < MinText
             THEN "Review must be at least 10 characters"
        ELSE IF fd.review_text.len > MaxText
             THEN "Review must be 1000 characters or less" ELSE ""]

\* error messages of the service, and err.includes(keyword) on them
ErrRating == "rating must be selected"
ErrTitle == "title is too long"
ErrText == "text is too short"
ErrOther == "You have already reviewed this business"
Includes(msg, kw) ==
    \/ kw = "rating" /\ msg = ErrRating
    \/ kw = "title" /\ msg = ErrTitle
    \/ kw = "text" /\ msg = ErrText

\* lines 207-212: forEach over the messages, later ones overwrite
RECURSIVE RouteErrors(_, _)
RouteErrors(errs, acc) ==
    IF errs = <<>> THEN acc
    ELSE LET err == Head(errs)
             nxt == IF Includes(err, "rating") THEN [acc EXCEPT !.rating = err]
                    ELSE IF Includes(err, "title")
                         THEN [acc EXCEPT !.review_title = err]
                    ELSE IF Includes(err, "text")
                         THEN [acc EXCEPT !.review_text = err]
                    ELSE acc
         IN  RouteErrors(Tail(errs), nxt)

\* error.response.data of a non-2xx answer to a submission
NoMessage == ""
HttpBodies ==
    {[message |-> ServerMessage, hasErrors |-> TRUE,
      errors |-> <<ErrRating, ErrOther>>],
     [message |-> NoMessage, hasErrors |-> FALSE, errors |-> <<>>]}

\* error.response.data.errors as it arrived, one entry per message
BodyErrors(body) ==
    [i \in 1..Len(body.errors) |-> <<"response.error", body.errors[i]>>]

\* the submissions of an unmounted form can no longer touch its state
Orphaned(S) ==
    {IF q.op \in {"create", "update"} THEN [q EXCEPT !.orphan = TRUE] ELSE q :
        q \in S}
\* a review created while a list request is in flight may be in its answer
Saw(S, id) ==
    {IF q.op = "list" THEN [q EXCEPT !.seen = @ \cup {id}] ELSE q : q \in S}

userReview ==      \* review-list.tsx line 257
    IF user # NoUser /\ \E i \in 1..Len(reviews) : reviews[i].user = user.id
    THEN reviews[CHOOSE i \in 1..Len(reviews) :
                    /\ reviews[i].user = user.id
                    /\ \A j \in 1..(i - 1) : reviews[j].user # user.id]
    ELSE NoReview

\* the Write Review button, review-list.tsx lines 325-335 (canReview = true)
openReviewForm ==
    /\ ListVisible
    /\ user # NoUser /\ userReview = NoReview
    /\ showReviewForm' = TRUE
    /\ formErrors' = NoErrors /\ formLoading' = FALSE
    /\ effects' = <<>>
    /\ UNCHANGED <<reviews, statistics, loading, editingReview, filters,
                   currentPage, hasMore, hasVotedHelpful, srv, confirmed,
                   helpfulCalls, net, nextReq>>
    /\ UNCHANGED authVars
    /\ UNCHANGED viewVars
    /\ received' = NoBody
    /\ UNCHANGED mounted

\* handleEditReview, review-list.tsx lines 150-153, from the card's edit
\* button (review-card.tsx lines 203-211) or the banner (lines 344-353)
handleEditReview(i) ==
    /\ ListVisible
    /\ i \in 1..Len(reviews)
    /\ reviews[i].can_edit \/ reviews[i] = userReview
    /\ editingReview' = reviews[i]
    /\ showReviewForm' = TRUE
    /\ formErrors' = NoErrors /\ formLoading' = FALSE
    /\ effects' = <<>>
    /\ UNCHANGED <<reviews, statistics, loading, filters, currentPage,
                   hasMore, hasVotedHelpful, srv, confirmed, helpfulCalls,
                   net, nextReq>>
    /\ UNCHANGED authVars
    /\ UNCHANGED viewVars
    /\ received' = NoBody
    /\ UNCHANGED mounted

\* onCancel, review-list.tsx lines 371-374: the form is unmounted
onCancel ==
    /\ mounted /\ showReviewForm
    /\ showReviewForm' = FALSE
    /\ editingReview' = NoReview
    /\ formErrors' = NoErrors /\ formLoading' = FALSE
    /\ net' = Orphaned(net)
    /\ effects' = <<>>
    /\ UNCHANGED <<reviews, statistics, loading, filters, currentPage,
                   hasMore, hasVotedHelpful, srv, confirmed, helpfulCalls,
                   nextReq>>
    /\ UNCHANGED authVars
    /\ UNCHANGED viewVars
    /\ received' = NoBody
    /\ UNCHANGED mounted

\* handleSubmit, review-form.tsx lines 173-197, up to the await
handleSubmit(fd) ==
    /\ mounted /\ showReviewForm /\ ~formLoading /\ user # NoUser
    /\ formErrors' = validateForm(fd)
    /\ IF validateForm(fd) # NoErrors
       THEN /\ UNCHANGED <<formLoading, net, nextReq>>
            /\ effects' = <<>>
       ELSE /\ CanSend(2)
            /\ formLoading' = TRUE
            /\ LET op == IF editingReview # NoReview THEN "update" ELSE "create"
               IN  /\ net' = net \cup {CallReq(op, editingReview.id)}
                   /\ effects' = << <<"request", op, RequestInterceptor(auth_token)>> >>
            /\ nextReq' = nextReq + 1
    /\ UNCHANGED <<reviews, statistics, loading, showReviewForm,
                   editingReview, filters, currentPage, hasMore,
                   hasVotedHelpful, srv, confirmed, helpfulCalls>>
    /\ UNCHANGED authVars
    /\ UNCHANGED viewVars
    /\ received' = NoBody
    /\ UNCHANGED mounted

\* handleReviewSubmit, review-list.tsx lines 136-143
ApplySubmit_Append(editing, prev, review) ==
    IF editing
    THEN [i \in 1..Len(prev) |-> IF prev[i].id = review.id THEN review ELSE prev[i]]
    ELSE prev \o <<review>>
ApplySubmit_ToFront(editing, prev, review) ==
    IF editing
    THEN <<review>> \o SelectSeq(prev, LAMBDA x : x.id # review.id)
    ELSE <<review>> \o prev
ApplySubmit(editing, prev, review) ==
    IF editing
    THEN [i \in 1..Len(prev) |-> IF prev[i].id = review.id THEN review ELSE prev[i]]
    ELSE <<review>> \o prev

\* what the service does with a submission it accepts
Accepts(r) ==
    IF r.op = "create" THEN MayCreate ELSE r.target \in Live
SrvAfterSubmit(r) ==
    IF r.op = "create"
    THEN [srv EXCEPT ![NewId] = [state |-> "live", user |-> user.id,
                                 helpful_count |-> 0, rev |-> 0]]
    ELSE [srv EXCEPT ![r.target].rev = @ + 1]
Submitted(r) == IF r.op = "create" THEN NewId ELSE r.target

Announce(r) ==
    IF r.op = "update" THEN <<"toast.success", "Review updated successfully!">>
    ELSE <<"toast.success", "Review submitted successfully!">>

\* handleSubmit, review-form.tsx lines 192-217, after the await; on success
\* onSuccess is handleReviewSubmit, review-list.tsx lines 135-148
submitResolve(r, outcome) ==
    /\ mounted /\ r \in net /\ r.op \in {"create", "update"}
    /\ \/ /\ outcome = "ok"
          /\ Accepts(r)
          /\ srv' = SrvAfterSubmit(r)
          /\ reviews' = ApplySubmit(r.target # 0, reviews,
                                    ServerView(srv', Submitted(r)))
          /\ editingReview' = IF r.target # 0 THEN NoReview ELSE editingReview
          /\ showReviewForm' = FALSE
          /\ formErrors' = NoErrors /\ formLoading' = FALSE
          /\ net' = Orphaned(Saw(net \ {r}, Submitted(r)))
                        \cup {MkReq(nextReq + 1, "list", r.page, r.filt, 0,
                                    "refresh", {i \in ReviewIds : srv'[i].state = "live"},
                                    auth_token)}
          /\ nextReq' = nextReq + 1
          /\ effects' = <<Resp(r, outcome), Announce(r),
                          <<"request", "list", RequestInterceptor(auth_token)>> >>
       \/ /\ outcome = "soft"     \* data undefined at line 200, after the toast
          /\ effects' = <<Resp(r, outcome), Announce(r),
                          <<"toast.error", "Failed to submit review">> >>
          /\ formLoading' = IF r.orphan THEN formLoading ELSE FALSE
          /\ net' = net \ {r}
          /\ UNCHANGED <<srv, reviews, editingReview, showReviewForm,
                         formErrors, nextReq>>
       \/ /\ outcome = "http"
          /\ \E body \in HttpBodies :
                /\ effects' = <<Resp(r, outcome)>> \o BodyErrors(body) \o
                              << <<"toast.error",
                                   IF body.message # NoMessage THEN body.message
                                   ELSE "Failed to submit review">> >>
                /\ formErrors' = IF body.hasErrors /\ ~r.orphan
                                 THEN RouteErrors(body.errors, NoErrors)
                                 ELSE formErrors
          /\ formLoading' = IF r.orphan THEN formLoading ELSE FALSE
          /\ net' = net \ {r}
          /\ UNCHANGED <<srv, reviews, editingReview, showReviewForm, nextReq>>
       \/ /\ outcome = "network"
          /\ effects' = <<Resp(r, outcome),
                          <<"toast.error", "Failed to submit review">> >>
          /\ formLoading' = IF r.orphan THEN formLoading ELSE FALSE
          /\ net' = net \ {r}
          /\ UNCHANGED <<srv, reviews, editingReview, showReviewForm,
                         formErrors, nextReq>>
    /\ hasVotedHelpful' = Mounted(hasVotedHelpful, reviews')
    /\ UNCHANGED <<statistics, loading, filters, currentPage, hasMore,
                   confirmed, helpfulCalls>>
    /\ UNCHANGED authVars
    /\ UNCHANGED viewVars
    /\ received' = NoBody
    /\ UNCHANGED mounted

----------------------------------------------------------------------------
(* Delete and mark-helpful: review-list.tsx lines 155-189, review-card.tsx
   lines 97-110 and 213-221 *)

\* line 156: the request is sent only after confirm() returned true
ConfirmGate_Skip(answer) == TRUE
ConfirmGate(answer) == answer

\* line 162
ApplyDelete(prev, reviewId) == SelectSeq(prev, LAMBDA x : x.id # reviewId)

\* handleDeleteReview, lines 155-161, up to the await; answer is what the
\* user tells confirm()
handleDeleteReview(i, answer) ==
    /\ ListVisible
    /\ i \in 1..Len(reviews) /\ reviews[i].can_delete
    /\ confirmed' = IF answer THEN confirmed \cup {reviews[i].id} ELSE confirmed
    /\ IF ~ConfirmGate(answer)
       THEN /\ UNCHANGED <<net, nextReq>>
            /\ effects' = <<>>
       ELSE /\ CanSend(2)
            /\ net' = net \cup {CallReq("delete", reviews[i].id)}
            /\ nextReq' = nextReq + 1
            /\ effects' = << <<"request", "delete", RequestInterceptor(auth_token)>> >>
    /\ UNCHANGED <<reviews, statistics, loading, showReviewForm,
                   editingReview, filters, currentPage, hasMore,
                   hasVotedHelpful, formErrors, formLoading, srv,
                   helpfulCalls>>
    /\ UNCHANGED authVars
    /\ UNCHANGED viewVars
    /\ received' = NoBody
    /\ UNCHANGED mounted

\* handleDeleteReview, lines 161-170, after the await: whatever 2xx answer
\* arrives, the envelope is not read
deleteResolve(r, outcome) ==
    /\ mounted /\ r \in net /\ r.op = "delete"
    /\ \/ /\ ~Threw(outcome)
          /\ outcome = "ok" => r.target \in Live
          /\ srv' = IF outcome = "ok"
                    THEN [srv EXCEPT ![r.target].state = "deleted"]
                    ELSE srv
          /\ reviews' = ApplyDelete(reviews, r.target)
          /\ net' = (net \ {r})
                        \cup {MkReq(nextReq + 1, "list", r.page, r.filt, 0,
                                    "refresh", {i \in ReviewIds : srv'[i].state = "live"},
                                    auth_token)}
          /\ nextReq' = nextReq + 1
          /\ effects' = <<Resp(r, outcome),
                          <<"toast.success", "Review deleted successfully">>,
                          <<"request", "list", RequestInterceptor(auth_token)>> >>
       \/ /\ Threw(outcome)
          /\ effects' = <<Resp(r, outcome),
                          <<"toast.error", "Failed to delete review">> >>
          /\ net' = net \ {r}
          /\ UNCHANGED <<srv, reviews, nextReq>>
    /\ hasVotedHelpful' = Mounted(hasVotedHelpful, reviews')
    /\ UNCHANGED <<statistics, loading, showReviewForm, editingReview,
                   filters, currentPage, hasMore, formErrors, formLoading,
                   confirmed, helpfulCalls>>
    /\ UNCHANGED authVars
    /\ UNCHANGED viewVars
    /\ received' = NoBody
    /\ UNCHANGED mounted

\* review-card.tsx line 63
isOwnReview(review) == user # NoUser /\ user.id = review.user

\* ReviewCard.handleHelpfulVote, review-card.tsx lines 97-110, and
\* ReviewList.handleHelpfulVote up to its await, review-list.tsx lines 173-175
cardHelpfulVote(i) ==
    /\ ListVisible
    /\ i \in 1..Len(reviews)
    /\ IF reviews[i].id \in hasVotedHelpful
       THEN /\ effects' = << <<"toast.error",
                               "You have already found this review helpful">> >>
            /\ UNCHANGED <<net, nextReq, hasVotedHelpful, helpfulCalls>>
       ELSE IF isOwnReview(reviews[i])
       THEN /\ effects' = << <<"toast.error",
                               "You cannot vote on your own review">> >>
            /\ UNCHANGED <<net, nextReq, hasVotedHelpful, helpfulCalls>>
       ELSE /\ CanSend(1)
            /\ net' = net \cup {CallReq("helpful", reviews[i].id)}
            /\ nextReq' = nextReq + 1
            /\ hasVotedHelpful' = hasVotedHelpful \cup {reviews[i].id}
            /\ helpfulCalls' = helpfulCalls \cup {reviews[i].id}
            /\ effects' = << <<"request", "helpful", RequestInterceptor(auth_token)>> >>
    /\ UNCHANGED <<reviews, statistics, loading, showReviewForm,
                   editingReview, filters, currentPage, hasMore, formErrors,
                   formLoading, srv, confirmed>>
    /\ UNCHANGED authVars
    /\ UNCHANGED viewVars
    /\ received' = NoBody
    /\ UNCHANGED mounted

\* lines 178-182
ApplyHelpful_All(prev, reviewId, count) ==
    [i \in 1..Len(prev) |-> [prev[i] EXCEPT !.helpful_count = count]]
ApplyHelpful(prev, reviewId, count) ==
    [i \in 1..Len(prev) |->
        IF prev[i].id = reviewId THEN [prev[i] EXCEPT !.helpful_count = count]
        ELSE prev[i]]

\* ReviewList.handleHelpfulVote, review-list.tsx lines 175-188, after the await
helpfulResolve(r, outcome) ==
    /\ mounted /\ r \in net /\ r.op = "helpful"
    /\ \/ /\ outcome = "ok"
          /\ r.target \in Live
          /\ srv' = [srv EXCEPT ![r.target].helpful_count = @ + 1]
          /\ reviews' = ApplyHelpful(reviews, r.target,
                                     srv'[r.target].helpful_count)
          /\ effects' = <<Resp(r, outcome),
                          <<"toast.success", "Thank you for your feedback!">> >>
          /\ UNCHANGED mounted
       \* a 2xx envelope without data: line 180 is read inside the updater,
       \* which runs when the list renders, after line 184; it throws there
       \* as soon as one listed review has the identifier
       \/ /\ outcome = "soft"
          /\ effects' = <<Resp(r, outcome),
                          <<"toast.success", "Thank you for your feedback!">> >>
                         \o IF r.target \in Ids(reviews)
                            THEN << <<"render.throw", "TypeError">> >>
                            ELSE <<>>
          /\ mounted' = (r.target \notin Ids(reviews))
          /\ UNCHANGED <<srv, reviews>>
       \/ /\ Threw(outcome)
          /\ effects' = <<Resp(r, outcome),
                          <<"toast.error", "Failed to record your vote">> >>
          /\ UNCHANGED <<srv, reviews, mounted>>
    /\ net' = net \ {r}
    /\ UNCHANGED <<nextReq, statistics, loading, showReviewForm,
                   editingReview, filters, currentPage, hasMore,
                   hasVotedHelpful, formErrors, formLoading, confirmed,
                   helpfulCalls>>
    /\ UNCHANGED authVars
    /\ UNCHANGED viewVars
    /\ received' = NoBody

----------------------------------------------------------------------------
(* The review list of one business, for a settled session *)

\* the list is mounted and its effect (lines 85-87) has sent the request
\* for the first page
InitSession ==
    /\ location = "/"
    /\ authLoading = FALSE
    /\ authPc = "settled"
    /\ since401 = FALSE
    /\ InitList
    /\ InitViews
    /\ net = {MkReq(1, "list", 1, InitFilters, 0, "mount", {1, 2}, auth_token)}
    /\ nextReq = 1
    /\ effects = << <<"request", "list", RequestInterceptor(auth_token)>> >>

\* a user signed in earlier
Init ==
    /\ \E u \in Users :
           user = u /\ auth_token = "t1" /\ userSnap = Stringify(u)
    /\ InitSession

Next ==
    \/ \E r \in net, o \in Outcomes : fetchResolve(r, o)
    \/ \E c \in FilterChoices : handleFilterChange(c[1], c[2])
    \/ loadMoreReviews
    \/ openReviewForm
    \/ \E i \in 1..Len(reviews) : handleEditReview(i)
    \/ onCancel
    \/ \E fd \in TypedForms : handleSubmit(fd)
    \/ \E r \in net, o \in Outcomes : submitResolve(r, o)
    \/ \E i \in 1..Len(reviews), answer \in BOOLEAN : handleDeleteReview(i, answer)
    \/ \E r \in net, o \in Outcomes : deleteResolve(r, o)
    \/ \E i \in 1..Len(reviews) : cardHelpfulVote(i)
    \/ \E r \in net, o \in Outcomes : helpfulResolve(r, o)

Spec == Init /\ [][Next]_vars

\* nobody is signed in: the visitor reads, filters, pages and votes; the
\* form and the delete button are not offered (lines 325-335, can_delete)
InitVisitor ==
    /\ user = NoUser /\ auth_token = NoToken /\ userSnap = NoSnap
    /\ InitSession

NextVisitor ==
    \/ \E r \in net, o \in Outcomes : fetchResolve(r, o)
    \/ \E c \in FilterChoices : handleFilterChange(c[1], c[2])
    \/ loadMoreReviews
    \/ \E i \in 1..Len(reviews) : cardHelpfulVote(i)
    \/ \E r \in net, o \in Outcomes : helpfulResolve(r, o)

SpecVisitor == InitVisitor /\ [][NextVisitor]_vars

----------------------------------------------------------------------------
(* The review form from its mount: ReviewForm, review-form.tsx *)

\* what the user may bring a field to: a star of the rating row (lines
\* 229-250, 299), a title of at most maxLength=100 characters (line 317),
\* a text of at most maxLength=1000 characters (line 341)
RatingChoices == {i * Scale : i \in 1..MaxStars}
TitleChoices ==
    {Str(0, 0), Str(3, 0), Str(12, 12), Str(MaxTitle, MaxTitle)}
TextChoices ==
    {Str(0, 0), Str(3, 0), Str(MinText - 1, MinText - 1), Str(MinText, MinText),
     Str(MinText, 1), Str(MaxText, MaxText)}
FieldChoices ==
    {<<"rating", v>> : v \in RatingChoices}
        \cup {<<"review_title", v>> : v \in TitleChoices}
        \cup {<<"review_text", v>> : v \in TextChoices}

\* the reviews the form may be opened on for an edit: interface Review
\* (api.ts lines 152-178) types rating as a number, here 4, 4.5, 6 stars
\* and a missing rating, and its title and text as strings of any length
ReviewContents ==
    {[rating |-> ra, review_title |-> Str(12, 12), review_text |-> Str(40, 40)] :
        ra \in {4 * Scale, 4 * Scale + 5, 6 * Scale, 0}}
    \cup {[rating |-> 4 * Scale, review_title |-> Str(MaxTitle + 1, MaxTitle + 1),
           review_text |-> Str(MaxText + 1, MaxText + 1)]}

\* handleInputChange, lines 220-227
handleInputChange(field, value) ==
    /\ mounted /\ showReviewForm
    /\ formData' = [formData EXCEPT ![field] = value]
    /\ formErrors' = IF formErrors[field] # ""
                     THEN [formErrors EXCEPT ![field] = ""]
                     ELSE formErrors
    /\ effects' = << <<"input", field>> >>
    /\ received' = NoBody
    /\ UNCHANGED <<reviews, statistics, loading, showReviewForm,
                   editingReview, filters, currentPage, hasMore,
                   hasVotedHelpful, formLoading, srv, confirmed,
                   helpfulCalls, mounted, starRating, stars, guard, net,
                   nextReq>>
    /\ UNCHANGED authVars

\* the list has loaded its first page and the form has just been mounted
\* over it: by user 2 to write a review (lines 325-335), or by user 1 to
\* edit review 1 (lines 150-153)
InitForm ==
    /\ \E u \in Users :
           /\ user = u /\ auth_token = "t1" /\ userSnap = Stringify(u)
           /\ IF u.id = 1
              THEN /\ editingReview =
                        [id |-> 1, user |-> 1, helpful_count |-> 0, rev |-> 0,
                         can_edit |-> TRUE, can_delete |-> TRUE]
                   /\ \E c \in ReviewContents : formData = FormInit(c)
              ELSE /\ editingReview = NoReview
                   /\ formData = FormInit(NoContent)
    /\ location = "/"
    /\ authLoading = FALSE
    /\ authPc = "settled"
    /\ since401 = FALSE
    /\ srv = InitSrv
    /\ reviews = [i \in 1..2 |-> ServerView(InitSrv, 3 - i)]
    /\ statistics = [total_reviews |-> 2]
    /\ loading = FALSE
    /\ showReviewForm = TRUE
    /\ filters = InitFilters
    /\ currentPage = 1
    /\ hasMore = FALSE
    /\ hasVotedHelpful = {}
    /\ formErrors = NoErrors
    /\ formLoading = FALSE
    /\ confirmed = {}
    /\ helpfulCalls = {}
    /\ mounted = TRUE
    /\ received = NoBody
    /\ starRating = 0
    /\ stars = NoStars
    /\ guard = NoGuard
    /\ net = {}
    /\ nextReq = 1
    /\ effects = <<>>

NextForm ==
    \/ \E c \in FieldChoices : handleInputChange(c[1], c[2])
    \/ handleSubmit(formData)
    \/ \E r \in net, o \in Outcomes : submitResolve(r, o)
    \/ onCancel

SpecForm == InitForm /\ [][NextForm]_vars

----------------------------------------------------------------------------
(* The controls of a loaded list: the edit and delete buttons of a card
   (review-card.tsx lines 203-221), its helpful button (lines 319-334) and
   the Edit link of the Your Review banner (review-list.tsx lines 344-353) *)

\* can_edit and can_delete are booleans the service decides (interface
\* Review, review-list.tsx lines 51-52): the two listed reviews with any
\* flags the response type allows
Flagged(e, d) ==
    [i \in 1..2 |-> [ServerView(InitSrv, 3 - i) EXCEPT !.can_edit = e[i],
                                                       !.can_delete = d[i]]]

InitCaps ==
    /\ \E u \in Users :
           user = u /\ auth_token = "t1" /\ userSnap = Stringify(u)
    /\ location = "/"
    /\ authLoading = FALSE
    /\ authPc = "settled"
    /\ since401 = FALSE
    /\ srv = InitSrv
    /\ \E e \in [1..2 -> BOOLEAN], d \in [1..2 -> BOOLEAN] :
           reviews = Flagged(e, d)
    /\ statistics = [total_reviews |-> 2]
    /\ loading = FALSE
    /\ showReviewForm = FALSE
    /\ editingReview = NoReview
    /\ filters = InitFilters
    /\ currentPage = 1
    /\ hasMore = FALSE
    /\ hasVotedHelpful = {}
    /\ formErrors = NoErrors
    /\ formLoading = FALSE
    /\ confirmed = {}
    /\ helpfulCalls = {}
    /\ mounted = TRUE
    /\ received = NoBody
    /\ InitViews
    /\ net = {}
    /\ nextReq = 1
    /\ effects = <<>>

NextCaps ==
    \/ \E i \in 1..Len(reviews) : handleEditReview(i)
    \/ onCancel
    \/ \E i \in 1..Len(reviews), answer \in BOOLEAN : handleDeleteReview(i, answer)
    \/ \E r \in net, o \in Outcomes : deleteResolve(r, o)
    \/ \E i \in 1..Len(reviews) : cardHelpfulVote(i)
    \/ \E r \in net, o \in Outcomes : helpfulResolve(r, o)
    \/ \E r \in net, o \in Outcomes : fetchResolve(r, o)

SpecCaps == InitCaps /\ [][NextCaps]_vars

----------------------------------------------------------------------------
(* The loaded list while the session changes: ReviewList reads user from
   useAuth() (review-list.tsx line 71); its fetch effect depends on
   businessId, filters and currentPage only (lines 85-87), so a change of
   user sends no request *)

InitIdentity ==
    /\ \E u \in Users :
           user = u /\ auth_token = "t1" /\ userSnap = Stringify(u)
    /\ location = "/"
    /\ authLoading = FALSE
    /\ authPc = "settled"
    /\ since401 = FALSE
    /\ srv = InitSrv
    /\ reviews = [i \in 1..2 |-> ServerView(InitSrv, 3 - i)]
    /\ statistics = [total_reviews |-> 2]
    /\ loading = FALSE
    /\ showReviewForm = FALSE
    /\ editingReview = NoReview
    /\ filters = InitFilters
    /\ currentPage = 1
    /\ hasMore = FALSE
    /\ hasVotedHelpful = {}
    /\ formErrors = NoErrors
    /\ formLoading = FALSE
    /\ confirmed = {}
    /\ helpfulCalls = {}
    /\ mounted = TRUE
    /\ received = NoBody
    /\ InitViews
    /\ net = {}
    /\ nextReq = 0
    /\ effects = <<>>

NextIdentity ==
    \/ logout
    \/ \E r \in net, s \in Statuses : logoutResolve(r, s)
    \/ login
    \/ \E r \in net, s \in Statuses, u \in Users, t \in Tokens :
           loginResolve(r, s, u, t)
    \/ \E i \in 1..Len(reviews) : handleEditReview(i)
    \/ onCancel

SpecIdentity == InitIdentity /\ [][NextIdentity]_vars

----------------------------------------------------------------------------
(* The review list against a service that pages consistently: the answer
   to page n of a sort order is the n-th slice of the reviews that are live
   when it answers, so that no review is on two pages at once *)

PageSize == 1   \* reviews on one page of the service (per_page, scaled down)

PageOf(r) ==
    LET ord == Ordered(Live, r.params.sort_by)
        from == (r.page - 1) * PageSize + 1
        to == IF r.page * PageSize <= Len(ord) THEN r.page * PageSize ELSE Len(ord)
    IN  [i \in 1..(to - from + 1) |-> ServerView(srv, ord[from + i - 1])]
TotalPages == (Cardinality(Live) + PageSize - 1) \div PageSize
PagedBody(r) ==
    [reviews |-> PageOf(r), statistics |-> ServerStatistics,
     meta |-> [current_page |-> r.page, total_pages |-> TotalPages]]

\* fetchReviews, lines 114-132, handling the answer of the paging service
pagedFetchResolve(r) ==
    /\ fetchResolve(r, "ok")
    /\ received' = PagedBody(r)

NextPaged ==
    \/ \E r \in net : pagedFetchResolve(r)
    \/ \E r \in net, o \in Outcomes \ {"ok"} : fetchResolve(r, o)
    \/ \E c \in FilterChoices : handleFilterChange(c[1], c[2])
    \/ loadMoreReviews
    \/ \E i \in 1..Len(reviews) : handleEditReview(i)
    \/ onCancel
    \/ \E fd \in TypedForms : handleSubmit(fd)
    \/ \E r \in net, o \in Outcomes : submitResolve(r, o)
    \/ \E i \in 1..Len(reviews), answer \in BOOLEAN : handleDeleteReview(i, answer)
    \/ \E r \in net, o \in Outcomes : deleteResolve(r, o)

SpecPaged == Init /\ [][NextPaged]_vars

----------------------------------------------------------------------------
(* withAuth, use-auth.tsx lines 171-219 (src/unnamed/part_001): the
   component it returns, rendered over the session store *)

\* the options a page wraps its component with
GuardOptions ==
    {[requiredRole |-> rr, redirectTo |-> to] :
        rr \in {NoRequiredRole,
                [configured |-> TRUE, roles |-> {"business_owner"}],
                [configured |-> TRUE, roles |-> Roles]},
        to \in {"/login", "/auth"}}

\* requiredRole && !requiredRole.includes(user.role), lines 187 and 209
RoleRefused(opts) ==
    opts.requiredRole.configured /\ user.role \notin opts.requiredRole.roles

\* lines 195-213: what the component returns
AuthenticatedComponent_AnyRole(opts) ==
    IF authLoading THEN "spinner"
    ELSE IF user = NoUser THEN "null"
    ELSE "wrapped"
AuthenticatedComponent(opts) ==
    IF authLoading THEN "spinner"
    ELSE IF user = NoUser THEN "null"
    ELSE IF RoleRefused(opts) THEN "null"
    ELSE "wrapped"

\* lines 180-193: the effect that runs after the render
GuardEffect(opts) ==
    IF authLoading THEN <<>>
    ELSE IF user = NoUser THEN << <<"router.push", opts.redirectTo>> >>
    ELSE IF RoleRefused(opts)
         THEN << <<"toast.error", "Access denied. Insufficient permissions.">>,
                 <<"router.push", "/">> >>
    ELSE <<>>
\* where the effect sent the client: its last entry is the router.push
Pushed(fx) == IF fx = <<>> THEN "none" ELSE fx[Len(fx)][2]

\* a render of the wrapped page and the effect that follows it
withAuthRender(opts) ==
    /\ guard' = [options |-> opts, rendered |-> AuthenticatedComponent(opts),
                 pushed |-> Pushed(GuardEffect(opts))]
    /\ effects' = GuardEffect(opts)
    /\ location' = IF Pushed(GuardEffect(opts)) = "none" THEN location
                   ELSE Pushed(GuardEffect(opts))
    /\ UNCHANGED <<auth_token, userSnap, user, authLoading, authPc, since401,
                   net, nextReq>>
    /\ UNCHANGED <<reviews, statistics, loading, showReviewForm,
                   editingReview, filters, currentPage, hasMore,
                   hasVotedHelpful, formErrors, formLoading, srv, confirmed,
                   helpfulCalls, mounted, received, formData, starRating,
                   stars>>

NextGuard ==
    \/ NextAuth
    \/ \E opts \in GuardOptions : withAuthRender(opts)

SpecGuard == InitAuth /\ [][NextGuard]_vars

----------------------------------------------------------------------------
(* Star rendering: renderStars of ReviewCard (review-card.tsx lines 69-95),
   of ReviewList (review-list.tsx lines 200-226) and of the business page
   (businesses/[slug]/page.tsx lines 215-251) *)

\* Math.floor, Math.ceil and rating % 1 !== 0 on a rating in tenths
Floor(rating) == rating \div Scale
Ceil(rating) == (rating + Scale - 1) \div Scale
HasFraction(rating) == rating % Scale # 0
\* a for loop pushing n glyphs; it does not run for n <= 0
Push(glyph, n) == [i \in 1..n |-> glyph]

CardRenderStars_NoHalf(rating) ==
    Push("filled", Floor(rating)) \o Push("empty", MaxStars - Ceil(rating))
CardRenderStars(rating) ==
    LET fullStars == Floor(rating)
        hasHalfStar == HasFraction(rating)
        remainingStars == MaxStars - Ceil(rating)
    IN  Push("filled", fullStars)
            \o (IF hasHalfStar THEN <<"half">> ELSE <<>>)
            \o Push("empty", remainingStars)
ListRenderStars(rating) ==
    LET fullStars == Floor(rating)
        hasHalfStar == HasFraction(rating)
        remainingStars == MaxStars - Ceil(rating)
    IN  Push("filled", fullStars)
            \o (IF hasHalfStar THEN <<"half">> ELSE <<>>)
            \o Push("empty", remainingStars)
PageRenderStars(rating) ==
    LET fullStars == Floor(rating)
        hasHalfStar == HasFraction(rating)
        remainingStars == MaxStars - Ceil(rating)
    IN  Push("filled", fullStars)
            \o (IF hasHalfStar THEN <<"half">> ELSE <<>>)
            \o Push("empty", remainingStars)

\* the ratings handed to a renderer: 0 to 6 stars in tenths
StarInputs == 0..((MaxStars + 1) * Scale)

renderFrame ==
    /\ effects' = <<>>
    /\ UNCHANGED <<reviews, statistics, loading, showReviewForm,
                   editingReview, filters, currentPage, hasMore,
                   hasVotedHelpful, formErrors, formLoading, srv, confirmed,
                   helpfulCalls, mounted, received, formData, starRating, guard,
                   net, nextReq>>
    /\ UNCHANGED authVars

\* review-card.tsx line 186, review-list.tsx lines 293 and 356, page lines
\* 346 and 591: a render calls the renderer on the rating
renderCard ==
    /\ stars' = [by |-> "card", glyphs |-> CardRenderStars(starRating)]
    /\ renderFrame
renderList ==
    /\ stars' = [by |-> "list", glyphs |-> ListRenderStars(starRating)]
    /\ renderFrame
renderPage ==
    /\ stars' = [by |-> "page", glyphs |-> PageRenderStars(starRating)]
    /\ renderFrame

InitStars ==
    /\ user = NoUser /\ auth_token = NoToken /\ userSnap = NoSnap
    /\ location = "/"
    /\ authLoading = FALSE
    /\ authPc = "settled"
    /\ since401 = FALSE
    /\ InitList
    /\ formData = FormInit(NoContent)
    /\ starRating \in StarInputs
    /\ stars = NoStars
    /\ guard = NoGuard
    /\ net = {}
    /\ nextReq = 0
    /\ effects = <<>>

NextStars == renderCard \/ renderList \/ renderPage

SpecStars == InitStars /\ [][NextStars]_vars

----------------------------------------------------------------------------
(* Reading the effects of a step *)

Count(seq, e) == Cardinality({i \in 1..Len(seq) : seq[i] = e})
\* position of the first e in seq, 0 when there is none
Pos(seq, e) ==
    IF \E i \in 1..Len(seq) : seq[i] = e
    THEN CHOOSE i \in 1..Len(seq) :
             seq[i] = e /\ \A j \in 1..(i - 1) : seq[j] # e
    ELSE 0
Before(seq, a, b) == Pos(seq, a) > 0 /\ Pos(seq, a) < Pos(seq, b)

IsDispatch(fx) == fx # <<>> /\ fx[1][1] = "request"
IsResponse(fx) == fx # <<>> /\ fx[1][1] = "response"
Is401(fx) == IsResponse(fx) /\ fx[1][3] = "401"
RejectOf(fx) == <<"reject", fx[1][2]>>

\* the request whose response this step handles, the requests it dispatches
Handled == {r \in net : \A q \in net' : q.id # r.id}
Sent == {q \in net' : \A r \in net : r.id # q.id}
\* this step handles the response `outcome` to an `op` request
Answered(op, outcome) ==
    effects' # <<>> /\ effects'[1] = <<"response", op, outcome>>
\* the notifications of a step
Toasts(fx, kind) == {fx[i][2] : i \in {j \in 1..Len(fx) : fx[j][1] = kind}}

----------------------------------------------------------------------------
(* Claims on the API gateway, checked under SpecAuth *)

\* C1: a 401 response to any operation erases the stored token and the stored
\* user snapshot and navigates to /login, once, before the rejection reaches
\* the caller; and as long as no login or registration has succeeded since,
\* every request dispatched afterwards carries no Authorization header.
C1_Unauthorized ==
    [][ /\ Is401(effects') =>
              /\ Before(effects', <<"removeItem", "auth_token">>, RejectOf(effects'))
              /\ Before(effects', <<"removeItem", "user">>, RejectOf(effects'))
              /\ Before(effects', <<"navigate", "/login">>, RejectOf(effects'))
              /\ Count(effects', <<"navigate", "/login">>) = 1
              /\ auth_token' = NoToken
              /\ userSnap' = NoSnap
              /\ location' = "/login"
        /\ (since401 /\ IsDispatch(effects')) =>
              \A r \in net' \ net : r.authorization = NoHeader
      ]_vars

\* a request was dispatched after a 401 forced the logout
C1_Witness ==
    /\ since401
    /\ location = "/login"
    /\ IsDispatch(effects)
    /\ \E r \in net : r.id = nextReq /\ r.authorization = NoHeader

\* C2: a dispatched request carries "Bearer <token>", with the token stored
\* at that moment, exactly when a token is stored, and no Authorization
\* header otherwise.
C2_BearerHeader ==
    [][ IsDispatch(effects') =>
            \A r \in net' \ net :
                /\ (auth_token # NoToken) <=> (r.authorization # NoHeader)
                /\ auth_token # NoToken =>
                       r.authorization = "Bearer " \o auth_token
      ]_vars

\* a request in flight carries the stored token
C2_Witness ==
    /\ auth_token \in Tokens
    /\ IsDispatch(effects)
    /\ \E r \in net : r.id = nextReq /\ r.authorization = "Bearer " \o auth_token

----------------------------------------------------------------------------
(* Claims on the review list, checked under Spec and SpecVisitor *)

\* C3: when the fetch of page p succeeds, the collection becomes the returned
\* batch if p = 1 and the previous collection followed by the batch
\* otherwise; the statistics become the returned ones; has-more becomes
\* meta.current_page < meta.total_pages, and false when meta is absent.
C3_FetchSuccess ==
    [][ \A r \in Handled :
            Answered("list", "ok") =>
                /\ reviews' = IF r.page = 1 THEN received'.reviews
                              ELSE reviews \o received'.reviews
                /\ statistics' = received'.statistics
                /\ hasMore' = IF received'.meta = NoMeta THEN FALSE
                              ELSE received'.meta.current_page
                                       < received'.meta.total_pages
      ]_vars

\* a batch with a meta was appended after a collection that was not empty
C3_Witness ==
    /\ effects # <<>> /\ effects[1] = <<"response", "list", "ok">>
    /\ received.reviews # <<>>
    /\ received.meta # NoMeta
    /\ Len(reviews) > Len(received.reviews)
    /\ currentPage > 1

\* C4: a change of a filter or sort value sets the page to 1 and dispatches
\* a fetch of page 1 with the new values; the successful response to that
\* fetch replaces the collection, whatever page had been reached.
C4_FilterChange ==
    [][ /\ filters' # filters =>
              /\ currentPage' = 1
              /\ \E q \in Sent :
                     /\ q.op = "list" /\ q.page = 1 /\ q.filt = filters'
                     /\ q.params = Params(1, filters')
        /\ \A r \in Handled :
              (r.origin = "filter" /\ Answered("list", "ok")) =>
                  reviews' = received'.reviews
      ]_vars

\* the filter was changed while page 2 was being loaded, and the page is 1
C4_Witness ==
    /\ IsDispatch(effects)
    /\ currentPage = 1
    /\ \E q \in net : q.id = nextReq /\ q.origin = "filter" /\ q.page = 1
    /\ \E q \in net : q.origin = "more" /\ q.page = 2
    /\ reviews # <<>>

\* C5: after a successful create the collection is the returned review
\* followed by the previous collection, one longer than before, and a
\* follow-up fetch is dispatched.
C5_CreatePrepends ==
    [][ \A r \in Handled :
            Answered("create", "ok") =>
                /\ Len(reviews') = Len(reviews) + 1
                /\ reviews'[1] = ServerView(srv', NewId)
                /\ reviews'[1].id \notin Live
                /\ \A i \in 1..Len(reviews) : reviews'[i + 1] = reviews[i]
                /\ \E q \in Sent : q.op = "list"
      ]_vars

\* a created review stands before the reviews that were listed, and the
\* follow-up fetch is in flight
C5_Witness ==
    /\ effects # <<>> /\ effects[1] = <<"response", "create", "ok">>
    /\ Len(reviews) >= 2
    /\ reviews[1].id = MaxReviewId /\ reviews[1].user = user.id
    /\ \E q \in net : q.id = nextReq /\ q.op = "list" /\ q.origin = "refresh"

\* C6: a delete request for a review is dispatched only when the user has
\* confirmed that delete, and when a delete succeeds the collection holds no
\* review with the deleted identifier.
C6_DeleteConfirmed ==
    [][ /\ \A q \in Sent : q.op = "delete" => q.target \in confirmed'
        /\ \A r \in Handled :
              Answered("delete", "ok") => r.target \notin Ids(reviews')
      ]_vars

\* a confirmed delete succeeded and took the review out of a collection
\* that keeps another one
C6_Witness ==
    /\ effects # <<>> /\ effects[1] = <<"response", "delete", "ok">>
    /\ \E i \in confirmed : srv[i].state = "deleted" /\ i \notin Ids(reviews)
    /\ reviews # <<>>

\* C7: no mark-helpful request is dispatched for a review of the current
\* identity, nor for a review for which a mark-helpful request was already
\* dispatched in this session.
C7_VoteOnce ==
    [][ \A q \in Sent :
            q.op = "helpful" =>
                /\ ~(user # NoUser /\ srv[q.target].user = user.id)
                /\ q.target \notin helpfulCalls
      ]_vars

\* C8: the response to a fetch whose filter and page are no longer the
\* current ones is discarded: it leaves the collection, the statistics and
\* has-more as they are.
C8_StaleDiscarded ==
    [][ \A r \in Handled :
            (r.op = "list" /\ <<r.filt, r.page>> # <<filters, currentPage>>) =>
                UNCHANGED <<reviews, statistics, hasMore>>
      ]_vars

\* C9: when a fetch or a delete fails, by a transport error, a non-2xx
\* response or a success=false envelope, the collection, the statistics and
\* has-more stay as they were and an error is notified.
C9_FailureKeepsState ==
    [][ \A r \in Handled :
            (/\ r.op \in {"list", "delete"}
             /\ \E o \in Outcomes \ {"ok"} : Answered(r.op, o)) =>
                /\ UNCHANGED <<reviews, statistics, hasMore>>
                /\ Toasts(effects', "toast.error") # {}
      ]_vars

\* C10: a 2xx response whose envelope says success=false, to a fetch, a
\* create, an edit, a delete or a mark-helpful, is handled as a failure: it
\* changes neither the collection nor the statistics, notifies no success
\* and notifies an error.
C10_SoftFailure ==
    [][ \A r \in Handled :
            Answered(r.op, "soft") =>
                /\ UNCHANGED <<reviews, statistics>>
                /\ Toasts(effects', "toast.success") = {}
                /\ Toasts(effects', "toast.error") # {}
      ]_vars

----------------------------------------------------------------------------
(* Claims on the review form, checked under SpecForm *)

\* this step is a press of Submit on the mounted form
SubmitPressed ==
    /\ showReviewForm /\ showReviewForm' /\ ~formLoading
    /\ \/ effects' = <<>>
       \/ IsDispatch(effects') /\ effects'[1][2] \in {"create", "update"}

RatingRuleFails(fd) == fd.rating = 0
TitleRuleFails(fd) == fd.review_title.trimmed = 0 \/ fd.review_title.len > 100
TextRuleFails(fd) ==
    \/ fd.review_text.trimmed = 0
    \/ fd.review_text.len < 10
    \/ fd.review_text.len > 1000

\* C11: on submit, a non-blank review text gets no review_text message
\* exactly when its length is between 10 and 1000 inclusive; a non-blank
\* text of length 9 gets the too-short message, one of length 1001 the
\* too-long message.
C11_TextLength ==
    [][ SubmitPressed =>
            LET t == formData.review_text
                msg == formErrors'.review_text
            IN  t.trimmed > 0 =>
                    /\ (msg = "") <=> (t.len >= 10 /\ t.len <= 1000)
                    /\ t.len = 9 => msg = "Review must be at least 10 characters"
                    /\ t.len = 1001 => msg = "Review must be 1000 characters or less"
      ]_vars

\* a text of exactly 10 characters was accepted and the request is in flight
C11_Witness ==
    /\ formData.review_text = Str(10, 10)
    /\ formErrors = NoErrors
    /\ formLoading
    /\ \E r \in net : r.id = nextReq /\ r.op \in {"create", "update"}

\* C12: when a rule fails on submit, no request is dispatched and the
\* error state holds a message for every field whose rule fails.
C12_AllMessages ==
    [][ (/\ SubmitPressed
         /\ \/ RatingRuleFails(formData)
            \/ TitleRuleFails(formData)
            \/ TextRuleFails(formData)) =>
            /\ Sent = {}
            /\ RatingRuleFails(formData) => formErrors'.rating # ""
            /\ TitleRuleFails(formData) => formErrors'.review_title # ""
            /\ TextRuleFails(formData) => formErrors'.review_text # ""
      ]_vars

\* a submit with three failing fields left three messages and no request
C12_Witness ==
    /\ showReviewForm /\ effects = <<>> /\ net = {} /\ ~formLoading
    /\ RatingRuleFails(formData) /\ TitleRuleFails(formData)
    /\ TextRuleFails(formData)
    /\ formErrors.rating # "" /\ formErrors.review_title # ""
    /\ formErrors.review_text # ""

\* C20: a create or update request is dispatched only when the rating the
\* form holds is one of 1, 2, 3, 4, 5 stars.
C20_RatingInRange ==
    [][ \A q \in Sent :
            q.op \in {"create", "update"} =>
                formData.rating \in {i * Scale : i \in 1..5}
      ]_vars

----------------------------------------------------------------------------
(* Claim on the star renderers, checked under SpecStars *)

Glyphs(kind) == Cardinality({i \in 1..Len(stars.glyphs) : stars.glyphs[i] = kind})

\* C13: for a rating between 0 and 5 a renderer returns exactly 5 glyphs:
\* as many filled stars as the integer part of the rating, one half star
\* exactly when the rating has a fractional part, the rest empty stars.
C13_FiveGlyphs ==
    (stars.by # "none" /\ starRating <= 5 * Scale) =>
        /\ Len(stars.glyphs) = 5
        /\ \E f \in 0..5 :
               /\ f * Scale <= starRating /\ starRating < (f + 1) * Scale
               /\ Glyphs("filled") = f
               /\ Glyphs("half") = (IF starRating = f * Scale THEN 0 ELSE 1)
               /\ Glyphs("empty") = 5 - f - Glyphs("half")

\* the card rendered 4.5 stars as four filled stars and a half star
C13_Witness ==
    /\ stars.by = "card"
    /\ starRating = 4 * Scale + 5
    /\ stars.glyphs = <<"filled", "filled", "filled", "filled", "half">>

----------------------------------------------------------------------------
(* Claims on the session store, checked under SpecAuth *)

\* C14: on startup with a stored token the store issues the identity probe;
\* when the probe succeeds the store is authenticated with a user, when the
\* probe fails for any reason the store is unauthenticated and the stored
\* token is gone; in both cases the checking state ends.
C14_Probe ==
    [][ /\ (authPc = "start" /\ Truthy(auth_token)) =>
              /\ authPc' = "checking"
              /\ \E q \in Sent : q.op = "me"
        /\ \A s \in Statuses :
              Answered("me", s) =>
                  /\ authPc' = "settled" /\ authLoading' = FALSE
                  /\ IF s = "200"
                     THEN user' \in Users
                     ELSE user' = NoUser /\ auth_token' = NoToken
      ]_vars

\* the probe failed without a 401 and the stored token is gone
C14_Witness ==
    /\ effects # <<>> /\ effects[1] = <<"response", "me", "500">>
    /\ auth_token = NoToken /\ userSnap = NoSnap
    /\ authPc = "settled" /\ ~authLoading

\* C15: when a login or a registration request succeeds, the store is
\* authenticated as a user, and the bearer token and the JSON snapshot of
\* that user are in the storage.
C15_SignedIn ==
    [][ \A op \in {"login", "register"} :
            Answered(op, "200") =>
                /\ user' \in Users
                /\ auth_token' \in Tokens
                /\ userSnap' = Stringify(user')
      ]_vars

\* a registration succeeded: user, token and snapshot are in place
C15_Witness ==
    /\ effects # <<>> /\ effects[1] = <<"response", "register", "200">>
    /\ user \in Users
    /\ auth_token \in Tokens
    /\ userSnap = Stringify(user)

\* C16: whatever the answer to the remote logout call, success or failure,
\* the logout ends with the store unauthenticated and with both the token
\* and the user snapshot removed from the storage.
C16_Logout ==
    [][ \A s \in Statuses :
            Answered("logout", s) =>
                /\ user' = NoUser
                /\ auth_token' = NoToken
                /\ userSnap' = NoSnap
                /\ Toasts(effects', "toast.success") = {"Logged out successfully"}
      ]_vars

\* the remote logout call failed without a 401 and the local logout was done
C16_Witness ==
    /\ effects # <<>> /\ effects[1] = <<"response", "logout", "500">>
    /\ effects[2] = <<"reject", "logout">>
    /\ user = NoUser /\ auth_token = NoToken /\ userSnap = NoSnap

\* C17: when a login or a registration request fails, no success is
\* announced, the failure is announced, and the store is left as it was.
C17_SuccessOnlyOnSuccess ==
    [][ \A op \in {"login", "register"}, s \in Statuses \ {"200"} :
            Answered(op, s) =>
                /\ Toasts(effects', "toast.success") = {}
                /\ Toasts(effects', "toast.error") # {}
                /\ user' = user
      ]_vars

\* a registration request failed and success was announced
C17_Witness ==
    /\ effects # <<>> /\ effects[1] = <<"response", "register", "500">>
    /\ "Registration Successful" \in Toasts(effects, "toast.success")
    /\ user = NoUser /\ auth_token = NoToken

----------------------------------------------------------------------------
(* Claims on edit and mark-helpful, checked under Spec *)

\* C18: after a successful edit the collection has the same length and the
\* same order of identifiers, the review with the returned identifier is
\* the returned review, every other review is unchanged, and a follow-up
\* fetch is sent.
C18_EditInPlace ==
    [][ \A r \in Handled :
            Answered("update", "ok") =>
                /\ Len(reviews') = Len(reviews)
                /\ \A i \in 1..Len(reviews) :
                       /\ reviews'[i].id = reviews[i].id
                       /\ reviews'[i] = IF reviews[i].id = r.target
                                        THEN ServerView(srv', r.target)
                                        ELSE reviews[i]
                /\ \E q \in Sent : q.op = "list"
      ]_vars

\* user 1 edited review 1, listed second: it is still second, now in its
\* edited revision, review 2 is still first, and the refresh is in flight
C18_Witness ==
    /\ effects # <<>> /\ effects[1] = <<"response", "update", "ok">>
    /\ Len(reviews) = 2
    /\ reviews[1].id = 2 /\ reviews[1].rev = 0
    /\ reviews[2].id = 1 /\ reviews[2].rev = 1
    /\ \E q \in net : q.id = nextReq /\ q.op = "list" /\ q.origin = "refresh"

\* C19: a successful mark-helpful on a review sets the helpful counter of
\* the listed review with that identifier to the counter the service
\* returned, and changes nothing else: not another field, not another
\* review, not the order or the length, not the statistics, not the
\* pagination state.
C19_HelpfulOnly ==
    [][ \A r \in Handled :
            Answered("helpful", "ok") =>
                /\ Len(reviews') = Len(reviews)
                /\ \A i \in 1..Len(reviews) :
                       reviews'[i] =
                           IF reviews[i].id = r.target
                           THEN [reviews[i] EXCEPT
                                    !.helpful_count = srv'[r.target].helpful_count]
                           ELSE reviews[i]
                /\ statistics' = statistics
                /\ currentPage' = currentPage /\ hasMore' = hasMore
                /\ filters' = filters /\ loading' = loading
      ]_vars

\* a vote was recorded on one of two listed reviews: its counter is 1, the
\* other's is still 0
C19_Witness ==
    /\ effects # <<>> /\ effects[1] = <<"response", "helpful", "ok">>
    /\ Len(reviews) = 2
    /\ \E i, j \in 1..2 :
           reviews[i].helpful_count = 1 /\ reviews[j].helpful_count = 0

----------------------------------------------------------------------------
(* Claims on the answers to a submission, checked under SpecForm *)

\* C21: when the service rejects a submission with a list of messages,
\* every message naming rating, title or text is shown under that field,
\* and every other message is shown in a toast: none is dropped.
C21_NoErrorDropped ==
    [][ \A r \in Handled :
            (r.op \in {"create", "update"} /\ ~r.orphan
                /\ Answered(r.op, "http")) =>
                \A msg \in Toasts(effects', "response.error") :
                    IF Includes(msg, "rating") THEN formErrors'.rating = msg
                    ELSE IF Includes(msg, "title") THEN formErrors'.review_title = msg
                    ELSE IF Includes(msg, "text") THEN formErrors'.review_text = msg
                    ELSE msg \in Toasts(effects', "toast.error")
      ]_vars

\* the service rejected a submission with two messages: the one on the
\* rating is under the rating field, the other one is in no toast
C21_Witness ==
    /\ effects # <<>> /\ effects[1][1] = "response" /\ effects[1][3] = "http"
    /\ Toasts(effects, "response.error") = {ErrRating, ErrOther}
    /\ formErrors.rating = ErrRating
    /\ ErrOther \notin Toasts(effects, "toast.error")
    /\ showReviewForm

----------------------------------------------------------------------------
(* Claim on the controls of the list, checked under SpecCaps *)

Listed(id) == reviews[CHOOSE i \in 1..Len(reviews) : reviews[i].id = id]

\* C22: the form opens in edit mode only on a review whose can_edit is
\* true, a delete is only sent for a review whose can_delete is true, and
\* no mark-helpful request leaves from the card of the viewer's own review.
C22_Gated ==
    [][ /\ (~showReviewForm /\ showReviewForm' /\ editingReview' # NoReview) =>
              editingReview'.can_edit
        /\ \A q \in Sent :
              /\ q.op = "delete" => Listed(q.target).can_delete
              /\ q.op = "helpful" => ~isOwnReview(Listed(q.target))
      ]_vars

\* the form is open in edit mode on the viewer's own review, which the
\* service sent with can_edit false
C22_Witness ==
    /\ showReviewForm
    /\ editingReview # NoReview
    /\ editingReview.user = user.id
    /\ ~editingReview.can_edit

----------------------------------------------------------------------------
(* Claim on the list across a change of identity, checked under SpecIdentity *)

\* C23: whoever is signed in, every listed review carries the can_edit and
\* can_delete the service gives the current identity, never those it gave
\* an identity that was signed in before.
C23_FreshFlags ==
    mounted =>
        \A i \in 1..Len(reviews) :
            /\ reviews[i].can_edit = ServerView(srv, reviews[i].id).can_edit
            /\ reviews[i].can_delete = ServerView(srv, reviews[i].id).can_delete

\* user 1 logged out and the list still offers edit and delete on review 1
C23_Witness ==
    /\ effects # <<>> /\ effects[1][1] = "response" /\ effects[1][2] = "logout"
    /\ user = NoUser
    /\ mounted /\ ~showReviewForm
    /\ \E i \in 1..Len(reviews) : reviews[i].can_edit /\ reviews[i].can_delete

----------------------------------------------------------------------------
(* Claims on the session store, continued; checked under SpecAuth *)

\* a step of updateUser: past the mount effect, the only step that has no
\* effect at all or the single effect of writing the user snapshot
UpdateUserStep ==
    /\ authPc # "start"
    /\ effects' = <<>> \/ effects' = << <<"setItem", "user">> >>

\* C24: updateUser sends no request; when a user is signed in the user in
\* memory becomes that user with the fields of the partial record put over
\* it; when nobody is signed in neither the user in memory nor the storage
\* changes.
C24_UpdateUser ==
    [][ UpdateUserStep =>
            /\ net' = net /\ nextReq' = nextReq
            /\ IF user # NoUser
               THEN \E p \in Partials :
                        /\ user' = [id |-> user.id, role |-> p.role]
                        /\ effects' = << <<"setItem", "user">> >>
               ELSE /\ user' = user
                    /\ userSnap' = userSnap /\ auth_token' = auth_token
                    /\ effects' = <<>>
      ]_vars

\* user 1, a customer, was updated with the role business_owner
C24_Witness ==
    /\ effects = << <<"setItem", "user">> >>
    /\ user = [id |-> 1, role |-> "business_owner"]
    /\ userSnap = Stringify(user)

----------------------------------------------------------------------------
(* Claims on the review list against a paging service, checked under
   SpecPaged *)

\* C25: the collection never holds two reviews with the same identifier.
C25_NoDuplicate ==
    \A i, j \in 1..Len(reviews) : i # j => reviews[i].id # reviews[j].id

\* user 1 loaded both pages and edited review 1: the follow-up fetch asked
\* for page 2 again and its answer was appended
C25_Witness ==
    /\ effects # <<>> /\ effects[1] = <<"response", "list", "ok">>
    /\ currentPage = 2
    /\ Len(reviews) = 3
    /\ reviews[1].id = 2
    /\ reviews[2].id = 1 /\ reviews[2].rev = 1
    /\ reviews[3] = reviews[2]

----------------------------------------------------------------------------
(* Claim on the session store and the storage, checked under SpecAuth *)

\* C26: as long as no 401 has sent the browser to /login, whenever a user
\* is signed in in memory a bearer token is in the storage.
C26_TokenWithUser ==
    (user # NoUser /\ location = "/") => Truthy(auth_token)

\* a login succeeded while the startup probe was in flight, the probe then
\* failed: a user is in memory and no token is stored
C26_Witness ==
    /\ effects # <<>> /\ effects[1] = <<"response", "me", "500">>
    /\ user \in Users
    /\ auth_token = NoToken
    /\ location = "/"

----------------------------------------------------------------------------
(* Claims on the review list and its requests in flight, checked under Spec *)

\* C27: a review that a successful delete removed from the collection is
\* not brought back by the answer to a list request.
C27_DeletedStaysOut ==
    [][ Answered("list", "ok") =>
            \A id \in ReviewIds :
                (srv[id].state = "deleted" /\ id \notin Ids(reviews)) =>
                    id \notin Ids(reviews')
      ]_vars

\* the answer to a list request sent before the delete of review 1 listed
\* review 1 again
C27_Witness ==
    /\ effects # <<>> /\ effects[1] = <<"response", "list", "ok">>
    /\ srv[1].state = "deleted"
    /\ 1 \in confirmed
    /\ 1 \in Ids(reviews)

----------------------------------------------------------------------------
(* Claims on the visitor's list, checked under SpecVisitor *)

\* C28: when the fetch of a load-more for page n fails, the current page
\* is below n afterwards, so that the next load-more asks for page n again.
C28_FailedPageRetried ==
    [][ \A r \in Handled :
            (r.op = "list" /\ r.origin = "more"
                /\ \E o \in Outcomes \ {"ok"} : Answered("list", o)) =>
                currentPage' < r.page
      ]_vars

\* the fetch of page 2 failed and the next load-more asked for page 3
C28_Witness ==
    /\ Len(reviews) = 1
    /\ currentPage = 3
    /\ net # {}
    /\ \A q \in net : q.op = "list" /\ q.origin = "more" /\ q.page = 3

\* C29: the already-voted flag of a card is set only by the step that
\* handles the successful answer to its mark-helpful request; and after a
\* failed answer the flag of that card is not set, so the vote can be
\* repeated.
C29_FlagOnSuccess ==
    [][ /\ hasVotedHelpful' \ hasVotedHelpful # {} => Answered("helpful", "ok")
        /\ \A r \in Handled :
              (r.op = "helpful"
                  /\ \E o \in Outcomes : Threw(o) /\ Answered("helpful", o)) =>
                  r.target \notin hasVotedHelpful'
      ]_vars

\* the mark-helpful request for a listed review failed and its card still
\* has the already-voted flag
C29_Witness ==
    /\ effects # <<>> /\ effects[1] = <<"response", "helpful", "network">>
    /\ "Failed to record your vote" \in Toasts(effects, "toast.error")
    /\ hasVotedHelpful \cap Ids(reviews) # {}
    /\ net = {}

----------------------------------------------------------------------------
(* Claim on withAuth, checked under SpecGuard *)

\* C30: a render of a component wrapped by withAuth shows the wrapped
\* component exactly when the startup check has finished, a user is signed
\* in and, if roles are required, the user's role is one of them; when the
\* check has finished and nobody is signed in it shows nothing and goes to
\* the configured login target; when the role is not one of the required
\* ones it shows nothing and goes to the home page.
C30_Guard ==
    [][ guard' # guard =>
            LET rr == guard'.options.requiredRole
                roleOk == ~rr.configured \/ user.role \in rr.roles
            IN  /\ guard'.rendered = "wrapped" <=>
                      (~authLoading /\ user # NoUser /\ roleOk)
                /\ (~authLoading /\ user = NoUser) =>
                      /\ guard'.rendered = "null"
                      /\ guard'.pushed = guard'.options.redirectTo
                      /\ location' = guard'.options.redirectTo
                /\ (~authLoading /\ user # NoUser /\ ~roleOk) =>
                      /\ guard'.rendered = "null"
                      /\ guard'.pushed = "/"
                      /\ location' = "/"
                /\ guard'.rendered = "wrapped" => guard'.pushed = "none"
      ]_vars

\* a signed-in customer opened a page for business owners: nothing is
\* rendered, access is refused and the client is sent to the home page
C30_Witness ==
    /\ user # NoUser /\ user.role = "customer"
    /\ ~authLoading
    /\ guard.options.requiredRole.roles = {"business_owner"}
    /\ guard.rendered = "null"
    /\ guard.pushed = "/"
    /\ "Access denied. Insufficient permissions." \in Toasts(effects, "toast.error")

====
